---- MODULE Spec2Model ----
(***************************************************************************)
(* Resume Keyword Matcher (src/app.py): the analysis pipeline of main()    *)
(* and the functions it calls: clean_text, get_synonyms,                   *)
(* categorize_keyword, extract_keywords, calculate_match and               *)
(* generate_improvement_suggestions.                                       *)
(*                                                                         *)
(* A Python str is modelled as a sequence of one-character strings, so     *)
(* that substring tests, regular expressions and str.split are computed    *)
(* character by character.  An optional value (None / not yet assigned)    *)
(* is the empty tuple, a present value x is <<x>>.                         *)
(***************************************************************************)
EXTENDS Integers, Sequences, FiniteSets, TLC

VARIABLES
  pc,            \* position of the script run inside main()
  resume_file,   \* uploaded resume: <<>> or <<decoded text>>
  job_file,      \* uploaded job description: <<>> or <<decoded text>>
  nltk_ready,    \* module global nltk_ready (result of setup_nltk)
  corpus_ok,     \* environment: the WordNet corpus data can be loaded
  dictionary,    \* environment: content of WordNet, word -> synsets
  resume_text,   \* main(): resume_text, <<>> until assigned
  job_text,      \* main(): job_text, <<>> until assigned
  job_keywords,  \* main(): job_keywords, <<>> until assigned
  results,       \* main(): results, <<>> until assigned
  suggestions,   \* main(): suggestions, <<>> until assigned
  message,       \* what the run showed: its level (st.error, st.warning, st.success) and text
  keyword,       \* argument of categorize_keyword / get_synonyms
  category,      \* result of categorize_keyword(keyword), <<>> until called
  synonyms       \* result of get_synonyms(keyword), <<>> until called

vars ==
  <<pc, resume_file, job_file, nltk_ready, corpus_ok, dictionary, resume_text,
    job_text, job_keywords, results, suggestions, message, keyword, category,
    synonyms>>

----------------------------------------------------------------------------
(* Characters *)

LowerChars ==
  <<"a","b","c","d","e","f","g","h","i","j","k","l","m",
    "n","o","p","q","r","s","t","u","v","w","x","y","z">>

UpperChars ==
  <<"A","B","C","D","E","F","G","H","I","J","K","L","M",
    "N","O","P","Q","R","S","T","U","V","W","X","Y","Z">>

Range(s) ==
  {s[i] : i \in 1..Len(s)}

IsLower(c) ==
  c \in Range(LowerChars)

IsUpper(c) ==
  c \in Range(UpperChars)

\* [a-zA-Z]
IsAlpha(c) ==
  IsLower(c) \/ IsUpper(c)

\* \w for the characters of the model: letters, digits, underscore
IsWordChar(c) ==
  IsAlpha(c) \/ c \in {"0","1","2","3","4","5","6","7","8","9","_"}

\* what str.split() splits on
IsSpace(c) ==
  c \in {" ", "\t", "\n", "\r", "\f"}

\* str.lower() of one character
LowerChar(c) ==
  IF IsUpper(c) THEN LowerChars[CHOOSE i \in 1..26 : UpperChars[i] = c] ELSE c

\* str.lower()
Lower(s) ==
  [i \in 1..Len(s) |-> LowerChar(s[i])]

\* needle in haystack (Python's substring test on str)
IsSubstring(needle, haystack) ==
  \E i \in 0..(Len(haystack) - Len(needle)) :
    \A j \in 1..Len(needle) : haystack[i + j] = needle[j]

----------------------------------------------------------------------------
(* clean_text *)

\* the end of the run of non-whitespace characters that starts at i
RunEnd(text, i) ==
  CHOOSE e \in i..Len(text) :
    /\ \A j \in i..e : ~IsSpace(text[j])
    /\ e = Len(text) \/ IsSpace(text[e + 1])

RECURSIVE SplitFrom(_, _)
\* str.split(): the maximal runs of non-whitespace characters from
\* position i on, in order
SplitFrom(text, i) ==
  LET starts == {s \in i..Len(text) : ~IsSpace(text[s])}
  IN IF starts = {} THEN <<>>
     ELSE LET s == CHOOSE x \in starts : \A y \in starts : x <= y
              e == RunEnd(text, s)
          IN <<SubSeq(text, s, e)>> \o SplitFrom(text, e + 1)

Split(text) ==
  SplitFrom(text, 1)

RECURSIVE JoinSpace(_)
\* ' '.join(parts)
JoinSpace(parts) ==
  IF parts = <<>> THEN <<>>
  ELSE IF Len(parts) = 1 THEN parts[1]
  ELSE LET half == Len(parts) \div 2
       IN JoinSpace(SubSeq(parts, 1, half)) \o <<" ">>
            \o JoinSpace(SubSeq(parts, half + 1, Len(parts)))

clean_text(text) ==
  JoinSpace(Split(Lower(text)))

\* str.strip() leaves a non-empty string
StripNonEmpty(text) ==
  \E i \in 1..Len(text) : ~IsSpace(text[i])

----------------------------------------------------------------------------
(* Regular expressions of categorize_keyword.  A pattern is a sequence of  *)
(* tokens: a one-character string is that literal character, "ANYSTAR" is  *)
(* .* , "ANY" is . , "BOL" is ^ , "EOL" is $ , "ALPHAPLUS" is [a-z]+ and   *)
(* "OPTPLUS" is \+? .                                                      *)

RECURSIVE ReMatchAt(_, _, _, _, _)
\* the pattern from token p on matches s from position i on (a prefix of
\* the rest suffices, as for re.match); ic is re.IGNORECASE
ReMatchAt(pat, p, s, i, ic) ==
  IF p > Len(pat) THEN TRUE
  ELSE LET tok == pat[p]
           n == Len(s)
           Letter(c) == IF ic THEN IsAlpha(c) ELSE IsLower(c)
       IN CASE tok = "BOL" -> i = 1 /\ ReMatchAt(pat, p + 1, s, i, ic)
            [] tok = "EOL" ->
                 /\ i = n + 1 \/ (i = n /\ s[n] = "\n")
                 /\ ReMatchAt(pat, p + 1, s, i, ic)
            [] tok = "ANYSTAR" ->
                 \E k \in i..(n + 1) :
                   /\ \A j \in i..(k - 1) : s[j] # "\n"
                   /\ ReMatchAt(pat, p + 1, s, k, ic)
            [] tok = "ALPHAPLUS" ->
                 \E k \in (i + 1)..(n + 1) :
                   /\ \A j \in i..(k - 1) : Letter(s[j])
                   /\ ReMatchAt(pat, p + 1, s, k, ic)
            [] tok = "OPTPLUS" ->
                 \/ i <= n /\ s[i] = "+" /\ ReMatchAt(pat, p + 1, s, i + 1, ic)
                 \/ ReMatchAt(pat, p + 1, s, i, ic)
            [] tok = "ANY" ->
                 i <= n /\ s[i] # "\n" /\ ReMatchAt(pat, p + 1, s, i + 1, ic)
            [] OTHER ->
                 /\ i <= n
                 /\ (IF ic THEN LowerChar(s[i]) ELSE s[i]) = tok
                 /\ ReMatchAt(pat, p + 1, s, i + 1, ic)

\* re.match(pattern, keyword, re.IGNORECASE) is not None
re_match(pattern, word) ==
  ReMatchAt(pattern, 1, word, 1, TRUE)

----------------------------------------------------------------------------
(* categorize_keyword *)

technical_patterns ==
  <<<<"ANYSTAR","p","r","o","g","r","a","m","m","i","n","g","ANYSTAR">>,
    <<"ANYSTAR","d","e","v","e","l","o","p","m","e","n","t","ANYSTAR">>,
    <<"ANYSTAR","e","n","g","i","n","e","e","r","i","n","g","ANYSTAR">>,
    <<"ANYSTAR","c","o","d","i","n","g","ANYSTAR">>,
    <<"ANYSTAR","a","l","g","o","r","i","t","h","m","ANYSTAR">>,
    <<"ANYSTAR","d","a","t","a","ANYSTAR","s","t","r","u","c","t","u","r","e","ANYSTAR">>,
    <<"ANYSTAR","d","a","t","a","b","a","s","e","ANYSTAR">>,
    <<"ANYSTAR","s","q","l","ANYSTAR">>,
    <<"ANYSTAR","p","y","t","h","o","n","ANYSTAR">>,
    <<"ANYSTAR","j","a","v","a","ANYSTAR">>,
    <<"ANYSTAR","j","a","v","a","s","c","r","i","p","t","ANYSTAR">>,
    <<"ANYSTAR","r","e","a","c","t","ANYSTAR">>,
    <<"ANYSTAR","n","o","d","e","ANYSTAR">>,
    <<"ANYSTAR","m","a","c","h","i","n","e","ANY","l","e","a","r","n","i","n","g","ANYSTAR">>,
    <<"ANYSTAR","a","i","ANYSTAR">>,
    <<"ANYSTAR","c","l","o","u","d","ANYSTAR">>,
    <<"ANYSTAR","a","w","s","ANYSTAR">>,
    <<"ANYSTAR","a","z","u","r","e","ANYSTAR">>,
    <<"ANYSTAR","d","o","c","k","e","r","ANYSTAR">>,
    <<"ANYSTAR","k","u","b","e","r","n","e","t","e","s","ANYSTAR">>,
    <<"ANYSTAR","d","e","v","o","p","s","ANYSTAR">>,
    <<"ANYSTAR","a","p","i","ANYSTAR">>,
    <<"ANYSTAR","w","e","b","ANYSTAR">>,
    <<"ANYSTAR","m","o","b","i","l","e","ANYSTAR">>,
    <<"ANYSTAR","s","o","f","t","w","a","r","e","ANYSTAR">>,
    <<"ANYSTAR","s","y","s","t","e","m","ANYSTAR">>,
    <<"ANYSTAR","n","e","t","w","o","r","k","ANYSTAR">>,
    <<"ANYSTAR","s","e","c","u","r","i","t","y","ANYSTAR">>>>

tools_patterns ==
  <<<<"BOL","ALPHAPLUS","OPTPLUS","EOL">>,
    <<"ANYSTAR","t","o","o","l","ANYSTAR">>,
    <<"ANYSTAR","f","r","a","m","e","w","o","r","k","ANYSTAR">>,
    <<"ANYSTAR","l","i","b","r","a","r","y","ANYSTAR">>,
    <<"ANYSTAR","p","l","a","t","f","o","r","m","ANYSTAR">>,
    <<"ANYSTAR","g","i","t","ANYSTAR">>,
    <<"ANYSTAR","j","e","n","k","i","n","s","ANYSTAR">>,
    <<"ANYSTAR","j","i","r","a","ANYSTAR">>,
    <<"ANYSTAR","e","x","c","e","l","ANYSTAR">>,
    <<"ANYSTAR","t","a","b","l","e","a","u","ANYSTAR">>,
    <<"ANYSTAR","p","h","o","t","o","s","h","o","p","ANYSTAR">>,
    <<"ANYSTAR","f","i","g","m","a","ANYSTAR">>,
    <<"ANYSTAR","w","o","r","d","ANYSTAR">>,
    <<"ANYSTAR","p","o","w","e","r","p","o","i","n","t","ANYSTAR">>>>

soft_patterns ==
  <<<<"ANYSTAR","c","o","m","m","u","n","i","c","a","t","i","o","n","ANYSTAR">>,
    <<"ANYSTAR","t","e","a","m","w","o","r","k","ANYSTAR">>,
    <<"ANYSTAR","l","e","a","d","e","r","s","h","i","p","ANYSTAR">>,
    <<"ANYSTAR","p","r","o","b","l","e","m","ANY","s","o","l","v","i","n","g","ANYSTAR">>,
    <<"ANYSTAR","c","r","i","t","i","c","a","l","ANY","t","h","i","n","k","i","n","g","ANYSTAR">>,
    <<"ANYSTAR","a","d","a","p","t","a","b","i","l","i","t","y","ANYSTAR">>,
    <<"ANYSTAR","c","r","e","a","t","i","v","i","t","y","ANYSTAR">>,
    <<"ANYSTAR","t","i","m","e","ANY","m","a","n","a","g","e","m","e","n","t","ANYSTAR">>,
    <<"ANYSTAR","c","o","l","l","a","b","o","r","a","t","i","o","n","ANYSTAR">>,
    <<"ANYSTAR","n","e","g","o","t","i","a","t","i","o","n","ANYSTAR">>,
    <<"ANYSTAR","p","r","e","s","e","n","t","a","t","i","o","n","ANYSTAR">>,
    <<"ANYSTAR","a","n","a","l","y","t","i","c","a","l","ANYSTAR">>,
    <<"ANYSTAR","s","t","r","a","t","e","g","i","c","ANYSTAR">>,
    <<"ANYSTAR","i","n","n","o","v","a","t","i","v","e","ANYSTAR">>,
    <<"ANYSTAR","p","r","o","a","c","t","i","v","e","ANYSTAR">>,
    <<"ANYSTAR","o","r","g","a","n","i","z","e","d","ANYSTAR">>>>

\* for pattern in patterns: if re.match(pattern, keyword, re.IGNORECASE)
AnyPatternMatches(patterns, word) ==
  \E i \in 1..Len(patterns) : re_match(patterns[i], word)

categorize_keyword_tools_first(word) ==
  IF AnyPatternMatches(tools_patterns, word) THEN "Tools & Technologies"
  ELSE IF AnyPatternMatches(technical_patterns, word) THEN "Technical Skills"
  ELSE IF AnyPatternMatches(soft_patterns, word) THEN "Soft Skills"
  ELSE "Other Skills"

categorize_keyword(word) ==
  IF AnyPatternMatches(technical_patterns, word) THEN "Technical Skills"
  ELSE IF AnyPatternMatches(tools_patterns, word) THEN "Tools & Technologies"
  ELSE IF AnyPatternMatches(soft_patterns, word) THEN "Soft Skills"
  ELSE "Other Skills"

----------------------------------------------------------------------------
(* setup_nltk, DummyWordnet, get_synonyms *)

\* The words the model's WordNet knows, and what it may hold for each: a
\* sequence of synsets, each a sequence of lemma names.
W_sql == <<"s","q","l">>
W_cod == <<"c","o","d">>
W_dev == <<"d","e","v">>
W_ops == <<"o","p","s">>
W_net == <<"n","e","t">>
W_the == <<"t","h","e">>

DictWords ==
  {W_sql}

\* a word with one synset; a word with two synsets that hold the word
\* itself, a two-word lemma and a repeated lemma; a word whose synsets hold
\* more single-word lemmas than get_synonyms returns
SynsetChoices(word) ==
  { <<>>,
    << <<W_cod, W_sql>> >>,
    << <<word, W_dev, W_dev \o <<"_">> \o W_ops>>, <<W_the, W_dev>> >> }

ManySynsets ==
  << <<W_dev, W_ops>>, <<W_ops, W_net, W_the, W_dev>> >>

Dictionaries ==
  {d \in [DictWords -> UNION {SynsetChoices(w) : w \in DictWords}] :
     \A w \in DictWords : d[w] \in SynsetChoices(w)}

\* setup_nltk(): nltk_ready is False only when the download raised; a
\* download that fails without raising leaves nltk_ready True and the corpus
\* missing.
SetupNltk ==
  /\ corpus_ok \in BOOLEAN
  /\ nltk_ready \in BOOLEAN
  /\ corpus_ok => nltk_ready
  /\ dictionary \in Dictionaries
  /\ ~corpus_ok => \A w \in DictWords : dictionary[w] = <<>>

\* wordnet.synsets(word): DummyWordnet returns [], the real module raises
\* LookupError when its corpus is missing
wordnet_synsets(word) ==
  IF ~nltk_ready THEN [raised |-> FALSE, synsets |-> <<>>]
  ELSE IF ~corpus_ok THEN [raised |-> TRUE, synsets |-> <<>>]
  ELSE [raised |-> FALSE,
        synsets |-> IF word \in DOMAIN dictionary THEN dictionary[word] ELSE <<>>]

\* lemma.name().replace('_', ' ')
ReplaceUnderscore(name) ==
  [i \in 1..Len(name) |-> IF name[i] = "_" THEN " " ELSE name[i]]

SynonymSetUnfiltered(word, synsets) ==
  LET lemmas == UNION {Range(synsets[i]) : i \in 1..Len(synsets)}
  IN {ReplaceUnderscore(l) : l \in lemmas}

\* the set built by the two loops of get_synonyms
SynonymSet(word, synsets) ==
  LET lemmas == UNION {Range(synsets[i]) : i \in 1..Len(synsets)}
  IN {s \in {ReplaceUnderscore(l) : l \in lemmas} : s # word /\ Len(Split(s)) = 1}

\* list(synonyms)[:3]: a set iterates in an order the program does not
\* control, so every order is possible
FirstOfSet(S, n) ==
  LET m == IF Cardinality(S) < n THEN Cardinality(S) ELSE n
  IN {l \in [1..m -> S] : \A i, j \in 1..m : i # j => l[i] # l[j]}

MaxSynonyms == 3

get_synonyms_no_except(word) ==
  LET looked == wordnet_synsets(word)
  IN IF looked.raised
       THEN {[raised |-> TRUE, value |-> <<>>]}
       ELSE {[raised |-> FALSE, value |-> l] :
               l \in FirstOfSet(SynonymSet(word, looked.synsets), MaxSynonyms)}

\* The possible outcomes of get_synonyms(word): raised tells whether an
\* exception leaves the function, value is the list returned.
get_synonyms(word) ==
  LET looked == wordnet_synsets(word)
  IN IF looked.raised
       THEN {[raised |-> FALSE, value |-> <<>>]}
       ELSE {[raised |-> FALSE, value |-> l] :
               l \in FirstOfSet(SynonymSet(word, looked.synsets), MaxSynonyms)}

----------------------------------------------------------------------------
(* extract_keywords *)

MinWordLen == 3

TopN == 30

stop_words ==
  {<<"t","h","e">>, <<"a","n","d">>, <<"f","o","r">>, <<"a","r","e">>, <<"b","u","t">>,
    <<"n","o","t">>, <<"y","o","u">>, <<"a","l","l">>, <<"c","a","n">>, <<"y","o","u","r">>,
    <<"h","a","s">>, <<"h","a","d">>, <<"h","e","r">>, <<"h","i","s">>, <<"h","o","w">>,
    <<"o","u","t">>, <<"s","e","e">>, <<"n","o","w">>, <<"o","n","e">>, <<"m","a","y">>,
    <<"g","e","t">>, <<"i","t","s">>, <<"w","h","o">>, <<"t","h","a","n">>, <<"b","e","e","n">>,
    <<"a","n","y">>, <<"o","u","r">>, <<"f","r","o","m">>, <<"w","i","t","h">>, <<"t","h","i","s">>,
    <<"t","h","a","t">>, <<"h","a","v","e">>, <<"w","i","l","l">>, <<"w","o","u","l","d">>,
    <<"s","h","o","u","l","d">>, <<"c","o","u","l","d">>, <<"w","h","a","t">>, <<"w","h","e","n">>,
    <<"w","h","e","r","e">>, <<"w","h","i","c","h">>, <<"t","h","e","r","e">>,
    <<"t","h","e","i","r">>, <<"t","h","e","y">>, <<"t","h","e","m">>, <<"t","h","e","s","e">>,
    <<"t","h","o","s","e">>, <<"t","h","e","n">>, <<"s","u","c","h">>, <<"s","o","m","e">>,
    <<"a","l","s","o">>, <<"m","o","r","e">>, <<"m","o","s","t">>, <<"j","u","s","t">>,
    <<"l","i","k","e">>, <<"o","n","l","y">>, <<"o","t","h","e","r">>, <<"a","b","o","u","t">>,
    <<"i","n","t","o">>, <<"o","v","e","r">>, <<"u","n","d","e","r">>, <<"a","f","t","e","r">>,
    <<"b","e","f","o","r","e">>, <<"b","e","t","w","e","e","n">>, <<"t","h","r","o","u","g","h">>,
    <<"d","u","r","i","n","g">>, <<"w","i","t","h","o","u","t">>, <<"b","e","i","n","g">>,
    <<"b","o","t","h">>, <<"e","a","c","h">>, <<"w","h","i","l","e">>, <<"u","n","t","i","l">>,
    <<"u","p","o","n">>, <<"w","i","t","h","i","n">>, <<"u","s","i","n","g">>,
    <<"b","a","s","e","d">>, <<"i","n","c","l","u","d","i","n","g">>,
    <<"a","c","c","o","r","d","i","n","g">>, <<"f","o","l","l","o","w","i","n","g">>,
    <<"v","a","r","i","o","u","s">>, <<"p","r","o","v","i","d","e">>,
    <<"p","r","o","v","i","d","e","d">>}

\* \b at position i of text (between text[i-1] and text[i])
WordBoundary(text, i) ==
  LET before == i > 1 /\ IsWordChar(text[i - 1])
      after == i <= Len(text) /\ IsWordChar(text[i])
  IN before # after

\* the longest run of [a-zA-Z] that starts at position i
AlphaRun(text, i) ==
  CHOOSE k \in 0..(Len(text) - i + 1) :
    /\ \A j \in i..(i + k - 1) : IsAlpha(text[j])
    /\ i + k > Len(text) \/ ~IsAlpha(text[i + k])

\* the length of the match of \b[a-zA-Z]{3,}\b at position i, 0 if there
\* is none: the longest the greedy {3,} reaches with \b after it
MatchLength(text, i) ==
  LET lens == {k \in MinWordLen..AlphaRun(text, i) :
                 WordBoundary(text, i) /\ WordBoundary(text, i + k)}
  IN IF lens = {} THEN 0 ELSE CHOOSE x \in lens : \A y \in lens : y <= x

RECURSIVE FindAllFrom(_, _)
\* re.findall(r'\b[a-zA-Z]{3,}\b', text) from position i on: the leftmost
\* match, then the scan goes on after the match
FindAllFrom(text, i) ==
  LET starts == {s \in i..Len(text) : MatchLength(text, s) > 0}
  IN IF starts = {} THEN <<>>
     ELSE LET s == CHOOSE x \in starts : \A y \in starts : x <= y
              k == MatchLength(text, s)
          IN <<SubSeq(text, s, s + k - 1)>> \o FindAllFrom(text, s + k)

re_findall_words(text) ==
  FindAllFrom(text, 1)

\* [word for word in words if word not in stop_words]
FilterStopWords(words) ==
  SelectSeq(words, LAMBDA w : w \notin stop_words)

\* the keys of Counter(words) in insertion order: each word at its first
\* occurrence
CounterKeys(words) ==
  LET first == {i \in 1..Len(words) : \A j \in 1..(i - 1) : words[j] # words[i]}
  IN [k \in 1..Cardinality(first) |->
        words[CHOOSE i \in first : Cardinality({j \in first : j < i}) = k - 1]]

\* word_counter[word]
CounterCount(words, w) ==
  Cardinality({i \in 1..Len(words) : words[i] = w})

RECURSIVE MostCommonFrom(_, _, _)
\* Counter.most_common(n): heapq.nlargest(n, items, key=count), which is
\* sorted(items, key=count, reverse=True)[:n]: by descending count, equal
\* counts in the order of the items (insertion order)
MostCommonFrom(keys, words, n) ==
  IF n = 0 \/ keys = <<>> THEN <<>>
  ELSE LET best == CHOOSE i \in 1..Len(keys) :
                     /\ \A j \in 1..Len(keys) :
                          CounterCount(words, keys[j]) <= CounterCount(words, keys[i])
                     /\ \A j \in 1..(i - 1) :
                          CounterCount(words, keys[j]) < CounterCount(words, keys[i])
       IN <<keys[best]>>
            \o MostCommonFrom(SubSeq(keys, 1, best - 1) \o SubSeq(keys, best + 1, Len(keys)),
                              words, n - 1)

RECURSIVE Reverse(_)
Reverse(s) ==
  IF s = <<>> THEN <<>> ELSE Append(Reverse(Tail(s)), Head(s))

most_common_last_first(words, n) ==
  MostCommonFrom(Reverse(CounterKeys(words)), words, n)

most_common(words, n) ==
  MostCommonFrom(CounterKeys(words), words, n)

\* top_keywords of extract_keywords(text)
top_keywords(text) ==
  most_common(FilterStopWords(re_findall_words(clean_text(text))), TopN)

RECURSIVE KeywordInfos(_, _, _, _)
\* the loop that builds categorized_keywords, for the keywords lo..hi of
\* top: every combination of the lists get_synonyms can return for them
KeywordInfos(top, words, lo, hi) ==
  IF lo > hi THEN {<<>>}
  ELSE IF lo = hi
    THEN {<<[keyword |-> top[lo],
             category |-> categorize_keyword(top[lo]),
             synonyms |-> o.value,
             count |-> CounterCount(words, top[lo])]>> :
            o \in {x \in get_synonyms(top[lo]) : ~x.raised}}
  ELSE LET mid == (lo + hi) \div 2
       IN {a \o b : a \in KeywordInfos(top, words, lo, mid),
                    b \in KeywordInfos(top, words, mid + 1, hi)}

\* The possible outcomes of extract_keywords(text): an exception of
\* get_synonyms is not caught here and leaves the function.
extract_keywords(text) ==
  LET words == FilterStopWords(re_findall_words(clean_text(text)))
      top == top_keywords(text)
  IN IF \E i \in 1..Len(top) : \E o \in get_synonyms(top[i]) : o.raised
       THEN {[raised |-> TRUE, value |-> <<>>]}
       ELSE {[raised |-> FALSE, value |-> kws] : kws \in KeywordInfos(top, words, 1, Len(top))}

----------------------------------------------------------------------------
(* calculate_match *)

\* the weights 1.0 and 0.7 in tenths, and the factor 100
ExactWeight == 10
SynonymWeight == 7
WeightScale == 10
Percent == 100

\* next(synonym for synonym in synonyms if synonym in resume_clean)
FirstMatchingSynonym(syns, resume_clean) ==
  syns[CHOOSE i \in 1..Len(syns) :
         /\ IsSubstring(syns[i], resume_clean)
         /\ \A j \in 1..(i - 1) : ~IsSubstring(syns[j], resume_clean)]

LastMatchingSynonym(syns, resume_clean) ==
  syns[CHOOSE i \in 1..Len(syns) :
         /\ IsSubstring(syns[i], resume_clean)
         /\ \A j \in (i + 1)..Len(syns) : ~IsSubstring(syns[j], resume_clean)]

MatchOneSynonymFirst(kw_info, resume_clean) ==
  IF \E i \in 1..Len(kw_info.synonyms) : IsSubstring(kw_info.synonyms[i], resume_clean)
    THEN [list |-> "found",
          record |-> [keyword |-> kw_info.keyword, category |-> kw_info.category,
                      match_type |-> "synonym",
                      matched_synonym |->
                        FirstMatchingSynonym(kw_info.synonyms, resume_clean),
                      synonyms |-> kw_info.synonyms]]
  ELSE IF IsSubstring(kw_info.keyword, resume_clean)
    THEN [list |-> "found",
          record |-> [keyword |-> kw_info.keyword, category |-> kw_info.category,
                      match_type |-> "exact", synonyms |-> kw_info.synonyms]]
  ELSE [list |-> "missing",
        record |-> [keyword |-> kw_info.keyword, category |-> kw_info.category,
                    synonyms |-> kw_info.synonyms]]

MatchOneLastSynonym(kw_info, resume_clean) ==
  IF IsSubstring(kw_info.keyword, resume_clean)
    THEN [list |-> "found",
          record |-> [keyword |-> kw_info.keyword, category |-> kw_info.category,
                      match_type |-> "exact", synonyms |-> kw_info.synonyms]]
  ELSE IF \E i \in 1..Len(kw_info.synonyms) : IsSubstring(kw_info.synonyms[i], resume_clean)
    THEN [list |-> "found",
          record |-> [keyword |-> kw_info.keyword, category |-> kw_info.category,
                      match_type |-> "synonym",
                      matched_synonym |->
                        LastMatchingSynonym(kw_info.synonyms, resume_clean),
                      synonyms |-> kw_info.synonyms]]
  ELSE [list |-> "missing",
        record |-> [keyword |-> kw_info.keyword, category |-> kw_info.category,
                    synonyms |-> kw_info.synonyms]]

\* one pass of the loop over job_keywords: the record appended and the
\* list it is appended to
MatchOne(kw_info, resume_clean) ==
  IF IsSubstring(kw_info.keyword, resume_clean)
    THEN [list |-> "found",
          record |-> [keyword |-> kw_info.keyword, category |-> kw_info.category,
                      match_type |-> "exact", synonyms |-> kw_info.synonyms]]
  ELSE IF \E i \in 1..Len(kw_info.synonyms) : IsSubstring(kw_info.synonyms[i], resume_clean)
    THEN [list |-> "found",
          record |-> [keyword |-> kw_info.keyword, category |-> kw_info.category,
                      match_type |-> "synonym",
                      matched_synonym |->
                        FirstMatchingSynonym(kw_info.synonyms, resume_clean),
                      synonyms |-> kw_info.synonyms]]
  ELSE [list |-> "missing",
        record |-> [keyword |-> kw_info.keyword, category |-> kw_info.category,
                    synonyms |-> kw_info.synonyms]]

RECURSIVE MatchLoopNewestFirst(_, _, _, _)
MatchLoopNewestFirst(kws, i, resume_clean, acc) ==
  IF i > Len(kws) THEN acc
  ELSE LET m == MatchOne(kws[i], resume_clean)
       IN MatchLoopNewestFirst(kws, i + 1, resume_clean,
            IF m.list = "missing"
              THEN [acc EXCEPT !.missing_keywords = <<m.record>> \o @]
            ELSE IF m.record.match_type = "exact"
              THEN [acc EXCEPT !.found_keywords = <<m.record>> \o @,
                               !.exact_matches = @ + 1]
              ELSE [acc EXCEPT !.found_keywords = <<m.record>> \o @,
                               !.synonym_matches = @ + 1])

RECURSIVE MatchLoop(_, _, _, _)
\* the loop over job_keywords from index i on; acc holds found_keywords,
\* missing_keywords, exact_matches and synonym_matches
MatchLoop(kws, i, resume_clean, acc) ==
  IF i > Len(kws) THEN acc
  ELSE LET m == MatchOne(kws[i], resume_clean)
       IN MatchLoop(kws, i + 1, resume_clean,
            IF m.list = "missing"
              THEN [acc EXCEPT !.missing_keywords = Append(@, m.record)]
            ELSE IF m.record.match_type = "exact"
              THEN [acc EXCEPT !.found_keywords = Append(@, m.record),
                               !.exact_matches = @ + 1]
              ELSE [acc EXCEPT !.found_keywords = Append(@, m.record),
                               !.synonym_matches = @ + 1])

\* match_percentage as the exact fraction num/den (the code computes it in
\* floating point)
MatchPercentageSwapped(exact_matches, synonym_matches, total_keywords) ==
  IF total_keywords > 0
    THEN [num |-> (exact_matches * SynonymWeight + synonym_matches * ExactWeight) * Percent,
          den |-> WeightScale * total_keywords]
    ELSE [num |-> 0, den |-> 1]

MatchPercentage(exact_matches, synonym_matches, total_keywords) ==
  IF total_keywords > 0
    THEN [num |-> (exact_matches * ExactWeight + synonym_matches * SynonymWeight) * Percent,
          den |-> WeightScale * total_keywords]
    ELSE [num |-> 0, den |-> 1]

calculate_match_no_clean(text, kws) ==
  LET acc == MatchLoop(kws, 1, text,
                       [found_keywords |-> <<>>, missing_keywords |-> <<>>,
                        exact_matches |-> 0, synonym_matches |-> 0])
      total_keywords == Len(kws)
  IN [match_percentage |->
        MatchPercentage(acc.exact_matches, acc.synonym_matches, total_keywords),
      found_keywords |-> acc.found_keywords,
      missing_keywords |-> acc.missing_keywords,
      total_keywords |-> total_keywords,
      exact_matches |-> acc.exact_matches,
      synonym_matches |-> acc.synonym_matches]

calculate_match(text, kws) ==
  LET acc == MatchLoop(kws, 1, clean_text(text),
                       [found_keywords |-> <<>>, missing_keywords |-> <<>>,
                        exact_matches |-> 0, synonym_matches |-> 0])
      total_keywords == Len(kws)
  IN [match_percentage |->
        MatchPercentage(acc.exact_matches, acc.synonym_matches, total_keywords),
      found_keywords |-> acc.found_keywords,
      missing_keywords |-> acc.missing_keywords,
      total_keywords |-> total_keywords,
      exact_matches |-> acc.exact_matches,
      synonym_matches |-> acc.synonym_matches]

----------------------------------------------------------------------------
(* generate_improvement_suggestions *)

TechnicalCited == 3
ToolsCited == 3
SoftCited == 2
MajorThreshold == 10
ModerateThreshold == 5

\* keywords[:n]
FirstN(s, n) ==
  SubSeq(s, 1, IF Len(s) < n THEN Len(s) ELSE n)

RECURSIVE CategoryOrder(_, _)
\* the keys of missing_by_category in insertion order
CategoryOrder(missing, seen) ==
  IF missing = <<>> THEN <<>>
  ELSE IF Head(missing).category \in seen
    THEN CategoryOrder(Tail(missing), seen)
    ELSE <<Head(missing).category>>
           \o CategoryOrder(Tail(missing), seen \cup {Head(missing).category})

\* missing_by_category[category]
InCategory(missing, c) ==
  SelectSeq(missing, LAMBDA kw : kw.category = c)

KeywordsOf(kws) ==
  [i \in 1..Len(kws) |-> kws[i].keyword]

\* the suggestions appended for one category: none for "Other Skills".  A
\* suggestion is its fixed text and the keywords it cites.
CategorySuggestion(missing, c) ==
  LET keywords == InCategory(missing, c)
  IN IF c = "Technical Skills"
       THEN <<[text |-> "Add technical skills",
               keywords |-> KeywordsOf(FirstN(keywords, TechnicalCited))]>>
     ELSE IF c = "Tools & Technologies"
       THEN <<[text |-> "Learn tools",
               keywords |-> KeywordsOf(FirstN(keywords, ToolsCited))]>>
     ELSE IF c = "Soft Skills"
       THEN <<[text |-> "Highlight soft skills",
               keywords |-> KeywordsOf(FirstN(keywords, SoftCited))]>>
     ELSE <<>>

RECURSIVE CategorySuggestions(_, _, _)
CategorySuggestions(missing, order, i) ==
  IF i > Len(order) THEN <<>>
  ELSE CategorySuggestion(missing, order[i]) \o CategorySuggestions(missing, order, i + 1)

SeveritySuggestionAtLeast(missing) ==
  IF Len(missing) >= MajorThreshold
    THEN <<[text |-> "Major revision needed", keywords |-> <<>>]>>
  ELSE IF Len(missing) >= ModerateThreshold
    THEN <<[text |-> "Moderate improvements", keywords |-> <<>>]>>
  ELSE <<[text |-> "Good match", keywords |-> <<>>]>>

\* the general suggestion appended last
SeveritySuggestion(missing) ==
  IF Len(missing) > MajorThreshold
    THEN <<[text |-> "Major revision needed", keywords |-> <<>>]>>
  ELSE IF Len(missing) > ModerateThreshold
    THEN <<[text |-> "Moderate improvements", keywords |-> <<>>]>>
  ELSE <<[text |-> "Good match", keywords |-> <<>>]>>

generate_improvement_suggestions(missing, found) ==
  CategorySuggestions(missing, CategoryOrder(missing, {}), 1) \o SeveritySuggestion(missing)

----------------------------------------------------------------------------
(* Inputs *)

RECURSIVE Concat(_)
\* the concatenation of a sequence of strings
Concat(parts) ==
  IF parts = <<>> THEN <<>>
  ELSE IF Len(parts) = 1 THEN parts[1]
  ELSE LET half == Len(parts) \div 2
       IN Concat(SubSeq(parts, 1, half)) \o Concat(SubSeq(parts, half + 1, Len(parts)))

\* all sequences of at most n elements of S
SeqsUpTo(S, n) ==
  UNION {[1..k -> S] : k \in 0..n}

MaxPieces == 2

\* what an uploaded file may decode to (extract_text_from_file returns ""
\* for a file it cannot read)
FilePieces ==
  {<<" ">>, W_the \o <<" ">>, W_sql \o <<" ">>, <<"C","o","d"," ">>}

FileTexts ==
  {Concat(ps) : ps \in SeqsUpTo(FilePieces, MaxPieces)}

----------------------------------------------------------------------------
(* main: one script run per interaction *)

\* nothing shown yet by st.error, st.warning or st.success
NoMessage ==
  [level |-> "none", text |-> ""]

NoLocals ==
  /\ resume_text = <<>>
  /\ job_text = <<>>
  /\ job_keywords = <<>>
  /\ results = <<>>
  /\ suggestions = <<>>

NoCall ==
  /\ keyword = <<>>
  /\ category = <<>>
  /\ synonyms = <<>>

Init ==
  /\ pc = "idle"
  /\ resume_file = <<>>
  /\ job_file = <<>>
  /\ SetupNltk
  /\ NoLocals
  /\ message = NoMessage
  /\ NoCall

env == <<nltk_ready, corpus_ok, dictionary>>
call == <<keyword, category, synonyms>>
locals == <<resume_text, job_text, job_keywords, results, suggestions>>

\* st.file_uploader: the user picks a resume file
UploadResume ==
  /\ pc = "idle"
  /\ \E text \in FileTexts : resume_file' = <<text>>
  /\ UNCHANGED <<pc, job_file, env, locals, message, call>>

\* st.file_uploader: the user picks a job description file
UploadJob ==
  /\ pc = "idle"
  /\ \E text \in FileTexts : job_file' = <<text>>
  /\ UNCHANGED <<pc, resume_file, env, locals, message, call>>

\* the button is pressed: if resume_file and job_file, else the warning
ClickAnalyze ==
  /\ pc = "idle"
  /\ IF resume_file # <<>> /\ job_file # <<>>
       THEN /\ pc' = "read_files"
            /\ UNCHANGED message
       ELSE /\ pc' = "rendered"
            /\ message' = [level |-> "warning", text |-> "Please upload both files to analyze."]
  /\ UNCHANGED <<resume_file, job_file, env, locals, call>>

\* resume_text = extract_text_from_file(resume_file), and job_text
ReadFiles ==
  /\ pc = "read_files"
  /\ resume_text' = <<resume_file[1]>>
  /\ job_text' = <<job_file[1]>>
  /\ pc' = "check_resume"
  /\ UNCHANGED <<resume_file, job_file, env, job_keywords, results, suggestions,
                 message, call>>

\* if not resume_text.strip(): st.error(...); return
CheckResume ==
  /\ pc = "check_resume"
  /\ IF StripNonEmpty(resume_text[1])
       THEN /\ pc' = "check_job"
            /\ UNCHANGED message
       ELSE /\ pc' = "rendered"
            /\ message' = [level |-> "error", text |-> "Resume file is empty."]
  /\ UNCHANGED <<resume_file, job_file, env, locals, call>>

CheckJobNoReturn ==
  /\ pc = "check_job"
  /\ pc' = "extract_keywords"
  /\ IF StripNonEmpty(job_text[1])
       THEN UNCHANGED message
       ELSE message' = [level |-> "error", text |-> "Job description file is empty."]
  /\ UNCHANGED <<resume_file, job_file, nltk_ready, corpus_ok, dictionary, resume_text,
                 job_text, job_keywords, results, suggestions, keyword, category, synonyms>>

\* if not job_text.strip(): st.error(...); return
CheckJob ==
  /\ pc = "check_job"
  /\ IF StripNonEmpty(job_text[1])
       THEN /\ pc' = "extract_keywords"
            /\ UNCHANGED message
       ELSE /\ pc' = "rendered"
            /\ message' = [level |-> "error", text |-> "Job description file is empty."]
  /\ UNCHANGED <<resume_file, job_file, env, locals, call>>

\* job_keywords = extract_keywords(job_text); an exception that leaves
\* extract_keywords ends the script run
ExtractKeywords ==
  /\ pc = "extract_keywords"
  /\ \E o \in extract_keywords(job_text[1]) :
       IF o.raised
         THEN /\ pc' = "exception"
              /\ UNCHANGED job_keywords
         ELSE /\ pc' = "check_keywords"
              /\ job_keywords' = <<o.value>>
  /\ UNCHANGED <<resume_file, job_file, env, resume_text, job_text, results,
                 suggestions, message, call>>

\* if not job_keywords: st.warning(...); return
CheckKeywords ==
  /\ pc = "check_keywords"
  /\ IF job_keywords[1] # <<>>
       THEN /\ pc' = "calculate_match"
            /\ UNCHANGED message
       ELSE /\ pc' = "rendered"
            /\ message' = [level |-> "warning", text |-> "No significant keywords found."]
  /\ UNCHANGED <<resume_file, job_file, env, locals, call>>

\* results = calculate_match(resume_text, job_keywords)
CalculateMatch ==
  /\ pc = "calculate_match"
  /\ results' = <<calculate_match(resume_text[1], job_keywords[1])>>
  /\ pc' = "generate_suggestions"
  /\ UNCHANGED <<resume_file, job_file, env, resume_text, job_text, job_keywords,
                 suggestions, message, call>>

\* suggestions = generate_improvement_suggestions(missing, found)
GenerateSuggestions ==
  /\ pc = "generate_suggestions"
  /\ suggestions' = <<generate_improvement_suggestions(results[1].missing_keywords,
                                                       results[1].found_keywords)>>
  /\ pc' = "display"
  /\ UNCHANGED <<resume_file, job_file, env, resume_text, job_text, job_keywords,
                 results, message, call>>

\* st.success("Analysis Complete!") and the display of results and
\* suggestions
Display ==
  /\ pc = "display"
  /\ message' = [level |-> "success", text |-> "Analysis Complete!"]
  /\ pc' = "rendered"
  /\ UNCHANGED <<resume_file, job_file, env, locals, call>>

\* the next interaction reruns the script: its locals and what it showed
\* are gone, the uploaded files stay
Rerun ==
  /\ pc = "rendered"
  /\ pc' = "idle"
  /\ resume_text' = <<>>
  /\ job_text' = <<>>
  /\ job_keywords' = <<>>
  /\ results' = <<>>
  /\ suggestions' = <<>>
  /\ message' = NoMessage
  /\ UNCHANGED <<resume_file, job_file, env, call>>

Next ==
  \/ UploadResume
  \/ UploadJob
  \/ ClickAnalyze
  \/ ReadFiles
  \/ CheckResume
  \/ CheckJob
  \/ ExtractKeywords
  \/ CheckKeywords
  \/ CalculateMatch
  \/ GenerateSuggestions
  \/ Display
  \/ Rerun

Spec ==
  Init /\ [][Next]_vars

----------------------------------------------------------------------------
(* categorize_keyword and get_synonyms called on their own *)

UpperFirst(w) ==
  IF w # <<>> /\ IsLower(w[1])
    THEN <<UpperChars[CHOOSE i \in 1..26 : LowerChars[i] = w[1]]>> \o Tail(w)
    ELSE w

W_communication == <<"c","o","m","m","u","n","i","c","a","t","i","o","n">>
W_leadership == <<"l","e","a","d","e","r","s","h","i","p">>
W_teamwork == <<"t","e","a","m","w","o","r","k">>
W_problem == <<"p","r","o","b","l","e","m">>
W_solving == <<"s","o","l","v","i","n","g">>
W_data == <<"d","a","t","a">>
W_structure == <<"s","t","r","u","c","t","u","r","e">>

WordCores ==
  { <<>>, W_sql, W_cod, <<"a","i">>, <<"c","l","o","u","d">>, <<"g","i","t">>,
    <<"t","o","o","l">>, <<"z","z">>, <<"z","9">>, <<"c","+">>, <<"c","+","+">>,
    W_communication, W_leadership, W_teamwork,
    W_problem \o <<"-">> \o W_solving, W_problem \o W_solving,
    W_data \o <<" ">> \o W_structure, W_structure \o W_data }

WordPrefixes ==
  {<<>>, <<"x">>, <<"9">>}

WordSuffixes ==
  {<<>>, <<"s">>, <<"!">>, <<"\n">>}

Words ==
  UNION {{p \o c \o s, p \o UpperFirst(c) \o s} :
           p \in WordPrefixes, c \in WordCores, s \in WordSuffixes}

InitKeyword ==
  /\ pc = "call"
  /\ resume_file = <<>>
  /\ job_file = <<>>
  /\ corpus_ok \in BOOLEAN
  /\ nltk_ready \in BOOLEAN
  /\ corpus_ok => nltk_ready
  /\ dictionary \in Dictionaries \cup {[w \in DictWords |-> ManySynsets]}
  /\ ~corpus_ok => \A w \in DictWords : dictionary[w] = <<>>
  /\ NoLocals
  /\ message = NoMessage
  /\ keyword \in {<<w>> : w \in Words}
  /\ category = <<>>
  /\ synonyms = <<>>

\* category = categorize_keyword(keyword)
CategorizeKeyword ==
  /\ keyword # <<>>
  /\ category = <<>>
  /\ category' = <<categorize_keyword(keyword[1])>>
  /\ UNCHANGED <<pc, resume_file, job_file, env, locals, message, keyword, synonyms>>

\* synonyms = get_synonyms(keyword)
GetSynonyms ==
  /\ keyword # <<>>
  /\ synonyms = <<>>
  /\ \E o \in get_synonyms(keyword[1]) : synonyms' = <<o>>
  /\ UNCHANGED <<pc, resume_file, job_file, env, locals, message, keyword, category>>

NextKeyword ==
  \/ CategorizeKeyword
  \/ GetSynonyms

SpecKeyword ==
  InitKeyword /\ [][NextKeyword]_vars

----------------------------------------------------------------------------
(* extract_keywords called on its own *)

MaxTokens == 3
MaxExtra == 2

\* a job text is words, each followed by whitespace or by nothing, and a
\* word followed by a character that is not a letter
TextWords ==
  {W_sql, <<"C","o","d">>, W_the, <<"a","b">>}

TextSeparators ==
  {<<" ","\n">>, <<>>}

TextPunctuation ==
  {<<"-">>, <<"1">>}

TextPieces ==
  {w \o s : w \in TextWords, s \in TextSeparators} \cup {W_sql \o s : s \in TextPunctuation}

ShortTexts ==
  {Concat(ps) : ps \in SeqsUpTo(TextPieces, MaxTokens)}

\* the i-th of the 64 three-letter words over a, b, c, d (none a stop word)
Word3(i) ==
  <<LowerChars[(((i - 1) \div 16) % 4) + 1],
    LowerChars[(((i - 1) \div 4) % 4) + 1],
    LowerChars[((i - 1) % 4) + 1]>>

\* n distinct words, then r more occurrences of the last of them
LongText(n, r) ==
  Concat([i \in 1..n |-> Word3(i) \o <<" ">>]) \o Concat([j \in 1..r |-> Word3(n) \o <<" ">>])

LongTexts ==
  {LongText(n, r) : n \in (TopN - 1)..(TopN + MaxExtra), r \in 0..1}

InitExtract ==
  /\ pc = "extract_keywords"
  /\ \E text \in ShortTexts \cup LongTexts :
       /\ job_file = <<text>>
       /\ job_text = <<text>>
       /\ resume_file = <<text>>
       /\ resume_text = <<text>>
  /\ nltk_ready = TRUE
  /\ corpus_ok = TRUE
  /\ dictionary = [w \in DictWords |-> << <<w, W_dev>>, <<W_the, W_dev>> >>]
  /\ job_keywords = <<>>
  /\ results = <<>>
  /\ suggestions = <<>>
  /\ message = NoMessage
  /\ NoCall

NextExtract ==
  ExtractKeywords

SpecExtract ==
  InitExtract /\ [][NextExtract]_vars

----------------------------------------------------------------------------
(* calculate_match called on its own, with any keyword list *)

MaxResumeLen == 3
MaxKeywords == 3

ResumeChars ==
  {"a", "A", "b", " "}

ResumeTexts ==
  SeqsUpTo(ResumeChars, MaxResumeLen)

KeywordInfo(word, syns) ==
  [keyword |-> word, category |-> categorize_keyword(word), synonyms |-> syns, count |-> 1]

KeywordPool ==
  { KeywordInfo(<<"a">>, <<>>),
    KeywordInfo(<<"a","b">>, <<<<"b">>>>),
    KeywordInfo(<<"b","b">>, <<<<"b","a">>, <<"b">>>>),
    KeywordInfo(<<"A">>, <<<<"b","a">>>>),
    KeywordInfo(<<"b"," ","a">>, <<<<"a"," "," ","b">>, <<"a">>>>) }

InitMatch ==
  /\ pc = "calculate_match"
  /\ \E text \in ResumeTexts :
       /\ resume_file = <<text>>
       /\ resume_text = <<text>>
  /\ job_file = <<>>
  /\ job_text = <<>>
  /\ SetupNltk
  /\ ~nltk_ready
  /\ job_keywords \in {<<kws>> : kws \in SeqsUpTo(KeywordPool, MaxKeywords)}
  /\ results = <<>>
  /\ suggestions = <<>>
  /\ message = NoMessage
  /\ NoCall

NextMatch ==
  CalculateMatch

SpecMatch ==
  InitMatch /\ [][NextMatch]_vars

----------------------------------------------------------------------------
(* generate_improvement_suggestions called on its own *)

MaxMissing == 12

Categories ==
  <<"Technical Skills", "Tools & Technologies", "Soft Skills", "Other Skills">>

\* n missing keywords whose categories run through Categories from offset
\* o on in steps of s
MissingList(n, o, s) ==
  [i \in 1..n |-> [keyword |-> Word3(i),
                   category |-> Categories[((o + s * i) % 4) + 1],
                   synonyms |-> <<>>]]

MissingLists ==
  {MissingList(n, o, s) : n \in 0..MaxMissing, o \in 0..3, s \in 0..3}

InitSuggest ==
  /\ pc = "generate_suggestions"
  /\ resume_file = <<>>
  /\ job_file = <<>>
  /\ resume_text = <<>>
  /\ job_text = <<>>
  /\ SetupNltk
  /\ ~nltk_ready
  /\ \E missing \in MissingLists :
       /\ job_keywords =
            <<[i \in 1..Len(missing) |->
                 [keyword |-> missing[i].keyword, category |-> missing[i].category,
                  synonyms |-> <<>>, count |-> 1]]>>
       /\ results =
            <<[match_percentage |-> MatchPercentage(0, 0, Len(missing)),
               found_keywords |-> <<>>,
               missing_keywords |-> missing,
               total_keywords |-> Len(missing),
               exact_matches |-> 0,
               synonym_matches |-> 0]>>
  /\ suggestions = <<>>
  /\ message = NoMessage
  /\ NoCall

NextSuggest ==
  GenerateSuggestions

SpecSuggest ==
  InitSuggest /\ [][NextSuggest]_vars

----------------------------------------------------------------------------
(* Properties of calculate_match (SpecMatch) *)

\* the normalized resume text the classification is decided by
NormalizedResume ==
  clean_text(resume_text[1])

\* the i-th synonym of a record is the first one found in the text
IsFirstSynonymIn(syns, i, text) ==
  /\ i \in 1..Len(syns)
  /\ IsSubstring(syns[i], text)
  /\ \A j \in 1..(i - 1) : ~IsSubstring(syns[j], text)

SomeSynonymIn(syns, text) ==
  \E i \in 1..Len(syns) : IsSubstring(syns[i], text)

\* the record r classifies the keyword kw
RecordOf(r, kw) ==
  r.keyword = kw.keyword /\ r.synonyms = kw.synonyms /\ r.category = kw.category

\* C1: every keyword given to calculate_match is classified by the
\* normalized resume text alone: it is recorded as an exact match exactly
\* when its text is a substring of the normalized resume; otherwise as a
\* synonym match exactly when one of its synonyms is a substring, and
\* matched_synonym is then the first such synonym of its list; otherwise as
\* missing.  No keyword is recorded in any other way.
C1_Classification ==
  results # <<>> =>
    LET R == results[1]
        kws == job_keywords[1]
        found == Range(R.found_keywords)
        missing == Range(R.missing_keywords)
    IN /\ \A n \in 1..Len(kws) :
            LET kw == kws[n]
                exact == IsSubstring(kw.keyword, NormalizedResume)
                syn == SomeSynonymIn(kw.synonyms, NormalizedResume)
            IN /\ exact <=> \E r \in found : RecordOf(r, kw) /\ r.match_type = "exact"
               /\ (~exact /\ syn) <=>
                    \E r \in found : RecordOf(r, kw) /\ r.match_type = "synonym"
               /\ (~exact /\ ~syn) <=> \E r \in missing : RecordOf(r, kw)
       /\ \A r \in found :
            /\ \E n \in 1..Len(kws) : RecordOf(r, kws[n])
            /\ r.match_type \in {"exact", "synonym"}
            /\ r.match_type = "synonym" =>
                 \E i \in 1..Len(r.synonyms) :
                   /\ r.matched_synonym = r.synonyms[i]
                   /\ IsFirstSynonymIn(r.synonyms, i, NormalizedResume)
       /\ \A r \in missing : \E n \in 1..Len(kws) : RecordOf(r, kws[n])

\* C1 witness: one call recorded a synonym match through the second synonym
\* of the list, an exact match of a keyword one of whose synonyms is in the
\* resume too, and a missing keyword.
C1_Witness ==
  /\ results # <<>>
  /\ \E r \in Range(results[1].found_keywords) :
       /\ r.match_type = "synonym"
       /\ Len(r.synonyms) >= 2
       /\ r.matched_synonym = r.synonyms[2]
  /\ \E r \in Range(results[1].found_keywords) :
       /\ r.match_type = "exact"
       /\ SomeSynonymIn(r.synonyms, NormalizedResume)
  /\ results[1].missing_keywords # <<>>

\* C2: the score is (exact_matches * 1.0 + synonym_matches * 0.7) /
\* total_keywords * 100 when there are keywords, and 0 with all counts 0
\* when the keyword list is empty; it lies between 0 and 100.
C2_Score ==
  results # <<>> =>
    LET R == results[1]
        score == R.match_percentage
        total == Len(job_keywords[1])
    IN /\ score.den > 0
       /\ R.total_keywords = total
       /\ IF total > 0
            THEN score.num * (10 * total)
                   = (R.exact_matches * 10 + R.synonym_matches * 7) * 100 * score.den
            ELSE /\ score.num = 0
                 /\ R.exact_matches = 0
                 /\ R.synonym_matches = 0
                 /\ R.missing_keywords = <<>>
       /\ 0 <= score.num
       /\ score.num <= 100 * score.den

\* C2 witness: a call with exact matches, synonym matches and missing
\* keywords, whose score is strictly between 0 and 100.
C2_Witness ==
  /\ results # <<>>
  /\ results[1].exact_matches > 0
  /\ results[1].synonym_matches > 0
  /\ results[1].missing_keywords # <<>>
  /\ 0 < results[1].match_percentage.num
  /\ results[1].match_percentage.num < 100 * results[1].match_percentage.den

\* C9 as stated: whenever every keyword's text is a literal substring of
\* resume_text, the score is 100.0 and no keyword is missing.
C9_Original ==
  (/\ results # <<>>
   /\ \A n \in 1..Len(job_keywords[1]) :
        IsSubstring(job_keywords[1][n].keyword, resume_text[1]))
  => /\ results[1].match_percentage.num = 100 * results[1].match_percentage.den
     /\ results[1].missing_keywords = <<>>

\* C9 amended: whenever the keyword list is not empty and every keyword's
\* text is a literal substring of the normalized resume text, the score is
\* 100.0 and no keyword is missing.
C9_AllExact ==
  (/\ results # <<>>
   /\ job_keywords[1] # <<>>
   /\ \A n \in 1..Len(job_keywords[1]) :
        IsSubstring(job_keywords[1][n].keyword, NormalizedResume))
  => /\ results[1].match_percentage.num = 100 * results[1].match_percentage.den
     /\ results[1].missing_keywords = <<>>

\* C9 witness: a call with several keywords, all of them in the normalized
\* resume and one of them not in the resume text as uploaded, one of them
\* with a synonym that is in the resume as well.
C9_Witness ==
  /\ results # <<>>
  /\ Len(job_keywords[1]) >= 2
  /\ \A n \in 1..Len(job_keywords[1]) :
       IsSubstring(job_keywords[1][n].keyword, NormalizedResume)
  /\ \E n \in 1..Len(job_keywords[1]) :
       ~IsSubstring(job_keywords[1][n].keyword, resume_text[1])
  /\ \E n \in 1..Len(job_keywords[1]) :
       SomeSynonymIn(job_keywords[1][n].synonyms, NormalizedResume)
  /\ results[1].exact_matches = Len(job_keywords[1])

----------------------------------------------------------------------------
(* Properties of extract_keywords (SpecExtract) *)

\* the normalized job text
NormalizedJob ==
  clean_text(job_text[1])

\* text[i..i+k-1] is a run of at least 3 letters with no word character
\* (letter, digit, underscore) next to it on either side
IsWordAt(text, i, k) ==
  /\ k >= 3
  /\ i >= 1
  /\ i + k - 1 <= Len(text)
  /\ \A j \in i..(i + k - 1) : IsAlpha(text[j])
  /\ i = 1 \/ ~IsWordChar(text[i - 1])
  /\ i + k - 1 = Len(text) \/ ~IsWordChar(text[i + k])

\* the positions at which w stands as a word of the text
Occurrences(text, w) ==
  {i \in 1..Len(text) : IsWordAt(text, i, Len(w)) /\ SubSeq(text, i, i + Len(w) - 1) = w}

\* the distinct tokens of the text: its words that are not stop words
DistinctTokens(text) ==
  {SubSeq(text, p[1], p[1] + p[2] - 1) :
     p \in {q \in (1..Len(text)) \X (3..Len(text)) : IsWordAt(text, q[1], q[2])}}
  \ stop_words

Frequency(text, w) ==
  Cardinality(Occurrences(text, w))

FirstOccurrence(text, w) ==
  CHOOSE i \in Occurrences(text, w) : \A j \in Occurrences(text, w) : i <= j

\* v is ranked before w: it is more frequent, or as frequent and first seen
\* earlier
RankedBefore(text, v, w) ==
  \/ Frequency(text, v) > Frequency(text, w)
  \/ /\ Frequency(text, v) = Frequency(text, w)
     /\ FirstOccurrence(text, v) < FirstOccurrence(text, w)

\* C3: extract_keywords returns the first min(30, d) of the d distinct
\* tokens of the normalized text in the order of descending frequency, ties
\* in the order of first occurrence: at most 30 keywords, distinct, none a
\* stop word, none shorter than 3, each a word of the normalized text, each
\* ranked before every token left out.
C3_Extraction ==
  job_keywords # <<>> =>
    LET kws == job_keywords[1]
        D == DistinctTokens(NormalizedJob)
        d == Cardinality(D)
    IN /\ Len(kws) = IF d < 30 THEN d ELSE 30
       /\ \A i \in 1..Len(kws) :
            /\ kws[i].keyword \in D
            /\ Len(kws[i].keyword) >= 3
            /\ kws[i].keyword \notin stop_words
            /\ kws[i].count = Frequency(NormalizedJob, kws[i].keyword)
       /\ \A i \in 1..(Len(kws) - 1) :
            RankedBefore(NormalizedJob, kws[i].keyword, kws[i + 1].keyword)
       /\ \A w \in D \ {kws[i].keyword : i \in 1..Len(kws)} :
            \A i \in 1..Len(kws) : RankedBefore(NormalizedJob, kws[i].keyword, w)
       /\ d = 0 => kws = <<>>

\* C3 witness: a text with more than 30 distinct tokens whose most frequent
\* token is first seen after 30 others: it is returned first, and tokens of
\* the same frequency are cut off.
C3_Witness ==
  /\ job_keywords # <<>>
  /\ Cardinality(DistinctTokens(NormalizedJob)) > 30
  /\ Len(job_keywords[1]) = 30
  /\ job_keywords[1][1].count = 2
  /\ FirstOccurrence(NormalizedJob, job_keywords[1][1].keyword)
       > FirstOccurrence(NormalizedJob, job_keywords[1][30].keyword)
  /\ job_keywords[1][2].count = job_keywords[1][30].count

----------------------------------------------------------------------------
(* Properties of categorize_keyword (SpecKeyword) *)

\* some pattern of the list matches the lowercased word, case-sensitively
ListMatches(patterns, word) ==
  \E i \in 1..Len(patterns) : ReMatchAt(patterns[i], 1, Lower(word), 1, FALSE)

\* C4: the category is that of the first of the lists Technical, Tools,
\* Soft that has a pattern matching the word without regard to case, and
\* "Other Skills" exactly when no pattern of the three lists matches; it is
\* a function of the word.
C4_Categorization ==
  category # <<>> =>
    LET w == keyword[1]
        tech == ListMatches(technical_patterns, w)
        tools == ListMatches(tools_patterns, w)
        soft == ListMatches(soft_patterns, w)
    IN /\ category[1] = "Technical Skills" <=> tech
       /\ category[1] = "Tools & Technologies" <=> (~tech /\ tools)
       /\ category[1] = "Soft Skills" <=> (~tech /\ ~tools /\ soft)
       /\ category[1] = "Other Skills" <=> (~tech /\ ~tools /\ ~soft)

\* C4 witness: a word with an upper-case letter that patterns of the
\* Technical list and of the Tools list both match is Technical.
C4_Witness ==
  /\ category = <<"Technical Skills">>
  /\ ListMatches(technical_patterns, keyword[1])
  /\ ListMatches(tools_patterns, keyword[1])
  /\ \E i \in 1..Len(keyword[1]) : IsUpper(keyword[1][i])

\* C5 as stated: 'communication', 'leadership' and 'teamwork' are
\* categorized as Soft Skills.
C5_SoftSkills ==
  (category # <<>> /\ keyword[1] \in {W_communication, W_leadership, W_teamwork})
    => category[1] = "Soft Skills"

----------------------------------------------------------------------------
(* Properties of generate_improvement_suggestions (SpecSuggest) *)

SeverityTexts ==
  {"Major revision needed", "Moderate improvements", "Good match"}

\* C6: the list returned is not empty; its last element is its only
\* severity suggestion, after all category suggestions: major revision for
\* more than 10 missing keywords, moderate improvements for more than 5 and
\* at most 10, good match for at most 5.
C6_Severity ==
  suggestions # <<>> =>
    LET S == suggestions[1]
        n == Len(results[1].missing_keywords)
    IN /\ Len(S) >= 1
       /\ S[Len(S)].text =
            IF n > 10 THEN "Major revision needed"
            ELSE IF n > 5 THEN "Moderate improvements"
            ELSE "Good match"
       /\ \A i \in 1..(Len(S) - 1) : S[i].text \notin SeverityTexts

\* C6 witness: ten missing keywords of all four categories give three
\* category suggestions and then the moderate tier.
C6_Witness ==
  /\ suggestions # <<>>
  /\ Len(results[1].missing_keywords) = 10
  /\ Len(suggestions[1]) = 4
  /\ suggestions[1][4].text = "Moderate improvements"
  /\ \E i \in 1..10 : results[1].missing_keywords[i].category = "Other Skills"

----------------------------------------------------------------------------
(* Properties of the analysis run (Spec) *)

\* a report exists: the run has computed results or suggestions, or shown
\* them
ReportExists ==
  results # <<>> \/ suggestions # <<>> \/ message.level = "success"

\* the uploaded files allow a report: both decode to a text that is not
\* empty after stripping, and the job text has at least one keyword
InputsAllowReport ==
  /\ resume_file # <<>>
  /\ job_file # <<>>
  /\ StripNonEmpty(resume_file[1])
  /\ StripNonEmpty(job_file[1])
  /\ DistinctTokens(clean_text(job_file[1])) # {}

\* C7: a run ends with a report exactly when the resume text and the job
\* text are not empty after stripping and the job text yields a keyword.  An
\* empty resume or job text ends the run with an error before
\* extract_keywords is called; a job text without keywords ends it with a
\* warning; in both cases calculate_match and
\* generate_improvement_suggestions are not called and no report exists.
C7_ReportOrStop ==
  /\ pc # "exception"
  /\ ReportExists =>
       /\ InputsAllowReport
       /\ job_keywords # <<>> /\ job_keywords[1] # <<>>
  /\ pc = "rendered" =>
       /\ message.level \in {"error", "warning", "success"}
       /\ message.level = "success" <=> InputsAllowReport
       /\ message.level = "success" => results # <<>> /\ suggestions # <<>>
       /\ message.level = "error" <=>
            /\ resume_file # <<>>
            /\ job_file # <<>>
            /\ ~StripNonEmpty(resume_file[1]) \/ ~StripNonEmpty(job_file[1])
  /\ message.level = "error" =>
       job_keywords = <<>> /\ results = <<>> /\ suggestions = <<>>
  /\ message.level = "warning" =>
       /\ results = <<>> /\ suggestions = <<>>
       /\ job_keywords # <<>> =>
            /\ job_keywords[1] = <<>>
            /\ StripNonEmpty(resume_text[1])
            /\ StripNonEmpty(job_text[1])

\* C7 witness: a run on a job text of stop words only ended with the
\* warning, after extract_keywords returned no keyword, without a report.
C7_Witness ==
  /\ pc = "rendered"
  /\ message.level = "warning"
  /\ job_keywords = <<<<>>>>
  /\ StripNonEmpty(job_text[1])
  /\ results = <<>>
  /\ suggestions = <<>>

\* the synonym dictionary is unavailable: the stub is installed, or the
\* lookups raise
DictionaryUnavailable ==
  ~nltk_ready \/ ~corpus_ok

\* C8: while the dictionary is unavailable get_synonyms returns the empty
\* list for every word and raises nothing, no run ends in an exception,
\* every keyword of a run has an empty synonym list, and every keyword of a
\* report is an exact match or missing.
C8_Degraded ==
  DictionaryUnavailable =>
    /\ \A w \in Words \cup DictWords : get_synonyms(w) = {[raised |-> FALSE, value |-> <<>>]}
    /\ pc # "exception"
    /\ job_keywords # <<>> =>
         \A i \in 1..Len(job_keywords[1]) : job_keywords[1][i].synonyms = <<>>
    /\ results # <<>> =>
         /\ results[1].synonym_matches = 0
         /\ \A r \in Range(results[1].found_keywords) :
              r.match_type = "exact" /\ r.synonyms = <<>>
         /\ \A r \in Range(results[1].missing_keywords) : r.synonyms = <<>>
    /\ (job_keywords # <<>> /\ job_keywords[1] # <<>> /\ pc = "rendered") =>
         message.level = "success" /\ results # <<>> /\ suggestions # <<>>

\* C8 witness: with a dictionary whose lookups raise, a run ended with a
\* report that has an exact match and a missing keyword.
C8_Witness ==
  /\ nltk_ready
  /\ ~corpus_ok
  /\ pc = "rendered"
  /\ message.level = "success"
  /\ results # <<>>
  /\ results[1].exact_matches > 0
  /\ results[1].missing_keywords # <<>>

\* C10: when the job text is the resume text, every keyword extracted from
\* it is an exact match, none is missing and the score is 100.0.
C10_SameText ==
  (results # <<>> /\ resume_text = job_text) =>
    /\ results[1].missing_keywords = <<>>
    /\ Len(results[1].found_keywords) = Len(job_keywords[1])
    /\ \A r \in Range(results[1].found_keywords) : r.match_type = "exact"
    /\ results[1].match_percentage.num = 100 * results[1].match_percentage.den

\* C10 witness: a report on identical texts that hold an upper-case letter,
\* with two keywords, one of which has a synonym that is in the text too.
C10_Witness ==
  /\ results # <<>>
  /\ resume_text = job_text
  /\ resume_text[1] # clean_text(resume_text[1])
  /\ \E i \in 1..Len(resume_text[1]) : IsUpper(resume_text[1][i])
  /\ Len(job_keywords[1]) = 2
  /\ \E i \in 1..2 : SomeSynonymIn(job_keywords[1][i].synonyms, NormalizedResume)
  /\ results[1].exact_matches = 2

----------------------------------------------------------------------------
(* calculate_match: the records and the counts *)

\* the positions of kws that the assignment f gives to one list, in order
PositionsIn(f, list) ==
  SelectSeq([i \in 1..Len(f) |-> i], LAMBDA i : f[i] = list)

\* records is, record by record and in order, the keywords of kws at the
\* positions ps
RecordsAt(records, kws, ps) ==
  /\ Len(records) = Len(ps)
  /\ \A j \in 1..Len(ps) : RecordOf(records[j], kws[ps[j]])

\* the number of found records of a match type
CountType(found, type) ==
  Cardinality({j \in 1..Len(found) : found[j].match_type = type})

\* C11: in every result of calculate_match each input keyword has exactly
\* one record, in found_keywords or in missing_keywords and not in both:
\* the two lists split the input list position by position, each keeping
\* the order of the input keywords.  exact_matches is the number of found
\* records of match type exact, synonym_matches the number of match type
\* synonym, and exact_matches + synonym_matches + len(missing_keywords) =
\* total_keywords = the number of input keywords.
C11_Records ==
  results # <<>> =>
    LET R == results[1]
        kws == job_keywords[1]
    IN /\ \E f \in [1..Len(kws) -> {"found", "missing"}] :
            /\ RecordsAt(R.found_keywords, kws, PositionsIn(f, "found"))
            /\ RecordsAt(R.missing_keywords, kws, PositionsIn(f, "missing"))
       /\ (\A i, j \in 1..Len(kws) : kws[i].keyword = kws[j].keyword => i = j) =>
            \A r \in Range(R.found_keywords), s \in Range(R.missing_keywords) :
              r.keyword # s.keyword
       /\ R.exact_matches = CountType(R.found_keywords, "exact")
       /\ R.synonym_matches = CountType(R.found_keywords, "synonym")
       /\ R.exact_matches + R.synonym_matches = Len(R.found_keywords)
       /\ R.exact_matches + R.synonym_matches + Len(R.missing_keywords)
            = R.total_keywords
       /\ R.total_keywords = Len(kws)

\* C11 witness: a call with three distinct keywords of which the first is
\* found by a synonym, the second is missing and the third is an exact
\* match, so that both lists and both counts are used and the found
\* records come from around the missing one.
C11_Witness ==
  /\ results # <<>>
  /\ Len(job_keywords[1]) = 3
  /\ Len(results[1].found_keywords) = 2
  /\ Len(results[1].missing_keywords) = 1
  /\ RecordOf(results[1].found_keywords[1], job_keywords[1][1])
  /\ results[1].found_keywords[1].match_type = "synonym"
  /\ RecordOf(results[1].missing_keywords[1], job_keywords[1][2])
  /\ RecordOf(results[1].found_keywords[2], job_keywords[1][3])
  /\ results[1].found_keywords[2].match_type = "exact"
  /\ results[1].exact_matches = 1
  /\ results[1].synonym_matches = 1

----------------------------------------------------------------------------
(* get_synonyms: the list returned *)

\* the lemma names the dictionary holds for a word
LemmasOf(word) ==
  IF word \in DOMAIN dictionary
    THEN UNION {Range(dictionary[word][i]) : i \in 1..Len(dictionary[word])}
    ELSE {}

\* C12: whatever the word and the content of the synonym dictionary,
\* get_synonyms raises nothing and returns at most 3 synonyms, pairwise
\* distinct, none of them the word itself, none of them of more than one
\* word, and each of them a lemma the dictionary holds for the word.
C12_Synonyms ==
  synonyms # <<>> =>
    LET word == keyword[1]
        value == synonyms[1].value
    IN /\ ~synonyms[1].raised
       /\ Len(value) <= 3
       /\ \A i, j \in 1..Len(value) : value[i] = value[j] => i = j
       /\ \A i \in 1..Len(value) :
            /\ value[i] # word
            /\ Len(Split(value[i])) = 1
            /\ \A k \in 1..Len(value[i]) : ~IsSpace(value[i][k])
            /\ value[i] \in LemmasOf(word)

\* C12 witness: get_synonyms returned 3 synonyms for a word for which the
\* dictionary holds more than 3 single-word lemmas other than the word.
C12_Witness ==
  /\ synonyms # <<>>
  /\ Len(synonyms[1].value) = 3
  /\ Cardinality({l \in LemmasOf(keyword[1]) :
                    l # keyword[1] /\ Len(Split(ReplaceUnderscore(l))) = 1}) > 3

\* C12, second witness state: the dictionary holds the word itself, a
\* two-word lemma and a lemma twice, and get_synonyms returned the others.
C12_WitnessFiltered ==
  /\ synonyms # <<>>
  /\ keyword[1] \in LemmasOf(keyword[1])
  /\ \E l \in LemmasOf(keyword[1]) : Len(Split(ReplaceUnderscore(l))) = 2
  /\ Len(synonyms[1].value) = 2

====
